---- MODULE Spec2Model ----
(***************************************************************************)
(* Short-link allocation and resolution engine of s8l_linebot              *)
(* (src/app/url_shortener.py): create_short_url and get_original_url run   *)
(* as concurrent coroutines/requests against one backing store.  Every     *)
(* `await` on the store or on the network is one atomic step; the only     *)
(* shared state is the store.                                              *)
(*                                                                         *)
(* Strings are sequences of one-character strings so that strip(),         *)
(* startswith() and urlparse() are computed, not assumed.                  *)
(***************************************************************************)
EXTENDS Integers, Sequences, FiniteSets, TLC

\* ------------------------------------------------------------------ bounds
\* number of concurrently running invocations (requests in flight)
NumProcs == 2
\* total number of invocations started in one behaviour
MaxCalls == 3
\* how many characters of URL_SAFE_CHARS the explored random draws use
NumCodeChars == 2

Procs == 1..NumProcs

\* ------------------------------------------------------- program constants
URL_SAFE_CHARS ==
    << "A","B","C","D","E","F","G","H","I","J","K","L","M","N","O","P","Q",
       "R","S","T","U","V","W","X","Y","Z","a","b","c","d","e","f","g","h",
       "i","j","k","l","m","n","o","p","q","r","s","t","u","v","w","x","y",
       "z","0","1","2","3","4","5","6","7","8","9","-","_" >>

\* default of generate_short_code(length=6)
CodeLength == 6

\* max_attempts of the collision loop
max_attempts == 10

\* title[:200]
TitleLimit == 200

\* the value fetch_page_title degrades to
TitleUnavailable == << "<title unavailable>" >>

\* email of the dedicated system user
linebot_email == "linebot@s8l.xyz"

\* ---------------------------------------------------------- string helpers
Whitespace == {" ", "\t", "\n"}

RECURSIVE LStrip(_)
LStrip(s) ==
    IF s # << >> /\ Head(s) \in Whitespace THEN LStrip(Tail(s)) ELSE s

RECURSIVE RStrip(_)
RStrip(s) ==
    IF s # << >> /\ s[Len(s)] \in Whitespace
    THEN RStrip(SubSeq(s, 1, Len(s) - 1))
    ELSE s

\* str.strip()
Strip(s) == RStrip(LStrip(s))

\* str.startswith(prefix)
StartsWith(s, prefix) ==
    /\ Len(s) >= Len(prefix)
    /\ SubSeq(s, 1, Len(prefix)) = prefix

HttpPrefix  == << "h","t","t","p",":","/","/" >>
HttpsPrefix == << "h","t","t","p","s",":","/","/" >>

\* index of the first element of s that lies in set, Len(s)+1 when none does
RECURSIVE FirstIn(_, _, _)
FirstIn(s, set, i) ==
    IF i > Len(s) THEN Len(s) + 1
    ELSE IF s[i] \in set THEN i
    ELSE FirstIn(s, set, i + 1)

\* index of the last element of s that lies in set, 0 when none does
RECURSIVE LastIn(_, _, _)
LastIn(s, set, i) ==
    IF i < 1 THEN 0
    ELSE IF s[i] \in set THEN i
    ELSE LastIn(s, set, i - 1)

UpperChars == SubSeq(URL_SAFE_CHARS, 1, 26)
LowerChars == SubSeq(URL_SAFE_CHARS, 27, 52)

\* str.lower() on one character
LowerChar(c) ==
    IF \E i \in 1..26 : UpperChars[i] = c
    THEN LowerChars[CHOOSE i \in 1..26 : UpperChars[i] = c]
    ELSE c

\* str.lower()
Lower(s) == [i \in 1..Len(s) |-> LowerChar(s[i])]

\* ------------------------------------------------------------- urlparse
\* urlparse(url).scheme: the text before the first ":" (empty when the url
\* has no ":" or starts with it)
Scheme(url) ==
    LET i == FirstIn(url, {":"}, 1)
    IN  IF i > Len(url) THEN << >> ELSE Lower(SubSeq(url, 1, i - 1))

\* urlparse(url).netloc: after "scheme://", up to the first "/", "?" or "#"
Netloc(url) ==
    LET i    == FirstIn(url, {":"}, 1)
        rest == SubSeq(url, i + 1, Len(url))
    IN  IF i > Len(url) \/ ~StartsWith(rest, << "/", "/" >>) THEN << >>
        ELSE LET body == SubSeq(rest, 3, Len(rest))
                 j    == FirstIn(body, {"/", "?", "#"}, 1)
             IN  SubSeq(body, 1, j - 1)

\* urlparse(url).hostname: netloc without userinfo and port, lower-cased
Hostname(url) ==
    LET n    == Netloc(url)
        at   == LastIn(n, {"@"}, Len(n))
        host == SubSeq(n, at + 1, Len(n))
        c    == FirstIn(host, {":"}, 1)
    IN  Lower(SubSeq(host, 1, c - 1))

\* --------------------------------------------------------- raw inputs
\* " a.io\n"
RawPlain == << " ","a",".","i","o","\n" >>
\* "https://a.io"
RawHttps == << "h","t","t","p","s",":","/","/","a",".","i","o" >>
\* "http://s8l.xyz/x"
RawOwn == << "h","t","t","p",":","/","/","s","8","l",".","x","y","z","/","x" >>
\* "not a url"
RawNotUrl == << "n","o","t"," ","a"," ","u","r","l" >>
\* " "
RawBlank == << " " >>

\* the request bodies explored
RawInputs == {RawPlain, RawHttps, RawOwn, RawNotUrl, RawBlank}

\* ------------------------------------------------------------ validate_url
\* variant: the default scheme is http:// instead of https://
validate_url_http_default(raw) ==
    LET stripped == Strip(raw)
        url == IF StartsWith(stripped, HttpPrefix)
                  \/ StartsWith(stripped, HttpsPrefix)
               THEN stripped
               ELSE HttpPrefix \o stripped
    IN  IF Scheme(url) = << >> \/ Netloc(url) = << >>
        THEN [ok |-> FALSE, url |-> << >>]
        ELSE [ok |-> TRUE, url |-> url]

\* validate_url(url): [ok |-> TRUE, url |-> normalized] or ok = FALSE for
\* the ValueError
validate_url(raw) ==
    LET stripped == Strip(raw)
        url == IF StartsWith(stripped, HttpPrefix)
                  \/ StartsWith(stripped, HttpsPrefix)
               THEN stripped
               ELSE HttpsPrefix \o stripped
    IN  IF Scheme(url) = << >> \/ Netloc(url) = << >>
        THEN [ok |-> FALSE, url |-> << >>]
        ELSE [ok |-> TRUE, url |-> url]

\* the hosts create_short_url compares parsed.hostname with
OwnHosts ==
    { << "s","8","l",".","x","y","z" >>,
      << "w","w","w",".","s","8","l",".","x","y","z" >>,
      << "l","o","c","a","l","h","o","s","t" >>,
      << "1","2","7",".","0",".","0",".","1" >> }

\* the `raise ValueError` inside the try block of the recursion check
RecursiveCheckRaises(url) == Hostname(url) \in OwnHosts

\* whether that ValueError leaves create_short_url: the raise sits inside
\* `try: ... except Exception: pass`, which catches it
RecursiveCheckPropagates(url) == RecursiveCheckRaises(url) /\ FALSE

\* ------------------------------------------------------ generate_short_code
\* the draws of random.choices explored: all `length` characters equal to
\* one of the first NumCodeChars characters of the alphabet
generate_short_code(length) ==
    { [i \in 1..length |-> URL_SAFE_CHARS[k]] : k \in 1..NumCodeChars }

\* variant: the exhaustion test compares with max_attempts instead of
\* max_attempts - 1, so the loop runs out without raising
AfterCollisionOffByOne(attempt) ==
    IF attempt = max_attempts THEN "raise"
    ELSE IF attempt + 1 < max_attempts THEN "continue"
    ELSE "exit"

\* what the collision loop does after a candidate that is already stored
AfterCollision(attempt) ==
    IF attempt = max_attempts - 1 THEN "raise"
    ELSE IF attempt + 1 < max_attempts THEN "continue"
    ELSE "exit"

\* short_code = None
None == << >>

\* -------------------------------------------------------- fetch_page_title
\* what an outbound GET can produce: an exception, a status, a document
\* with or without <title>
Responses ==
    { [exc |-> "TimeoutError", status |-> 0,   hasTitle |-> FALSE, text |-> << >>],
      [exc |-> "ClientError",  status |-> 0,   hasTitle |-> FALSE, text |-> << >>],
      [exc |-> "ParseError",   status |-> 200, hasTitle |-> FALSE, text |-> << >>],
      [exc |-> "none",         status |-> 404, hasTitle |-> TRUE,  text |-> << "N" >>],
      [exc |-> "none",         status |-> 200, hasTitle |-> FALSE, text |-> << >>],
      [exc |-> "none",         status |-> 200, hasTitle |-> TRUE,  text |-> << >>],
      [exc |-> "none",         status |-> 200, hasTitle |-> TRUE,
       text |-> << " ","A"," ","\n","b"," " >>] }

\* re.sub(r'\s+', ' ', title)
RECURSIVE CollapseSpaces(_)
CollapseSpaces(s) ==
    IF s = << >> THEN << >>
    ELSE IF Head(s) \in Whitespace
         THEN << " " >> \o CollapseSpaces(LStrip(s))
         ELSE << Head(s) >> \o CollapseSpaces(Tail(s))

\* title[:200]
Truncate(s, n) == SubSeq(s, 1, IF Len(s) < n THEN Len(s) ELSE n)

\* a response that makes fetch_page_title return the sentinel
FetchFails(r) ==
    \/ r.exc # "none"
    \/ r.status # 200
    \/ ~r.hasTitle
    \/ r.text = << >>

\* "https://a.io", the one destination of the explored inputs that serves
\* a page
LiveUrl == HttpsPrefix \o << "a",".","i","o" >>

\* the network: what a GET of url can answer.  Only LiveUrl has a server
\* that may answer 200 with a titled page; every url can fail in every way
Web(url) ==
    IF url = LiveUrl THEN Responses ELSE {r \in Responses : FetchFails(r)}

\* variant: asyncio.TimeoutError is not caught
fetch_page_title_uncaught(r) ==
    IF r.exc = "TimeoutError" THEN [raised |-> TRUE, title |-> << >>]
    ELSE IF FetchFails(r) THEN [raised |-> FALSE, title |-> TitleUnavailable]
    ELSE [raised |-> FALSE,
          title |-> Truncate(CollapseSpaces(Strip(r.text)), TitleLimit)]

\* fetch_page_title(url) for response r: [raised, title]
fetch_page_title(r) ==
    IF r.exc = "TimeoutError" THEN [raised |-> FALSE, title |-> TitleUnavailable]
    ELSE IF r.exc # "none" THEN [raised |-> FALSE, title |-> TitleUnavailable]
    ELSE IF r.status # 200 THEN [raised |-> FALSE, title |-> TitleUnavailable]
    ELSE IF r.hasTitle /\ r.text # << >>
         THEN [raised |-> FALSE,
               title |-> Truncate(CollapseSpaces(Strip(r.text)), TitleLimit)]
         ELSE [raised |-> FALSE, title |-> TitleUnavailable]

\* ------------------------------------------------------------------ store
\* db.url.find_unique(where={"originalUrl": u}): the id of the record, 0
\* for None
FindByOriginalUrl(store, u) ==
    IF \E i \in 1..Len(store) : store[i].originalUrl = u
    THEN CHOOSE i \in 1..Len(store) : store[i].originalUrl = u
    ELSE 0

\* variant: a lookup that matches no record falls back to the oldest record
\* instead of returning None
FindByShortCode_fallback(store, c) ==
    IF \E i \in 1..Len(store) : store[i].shortCode = c
    THEN CHOOSE i \in 1..Len(store) : store[i].shortCode = c
    ELSE IF Len(store) > 0 THEN 1 ELSE 0

\* db.url.find_unique(where={"shortCode": c})
FindByShortCode(store, c) ==
    IF \E i \in 1..Len(store) : store[i].shortCode = c
    THEN CHOOSE i \in 1..Len(store) : store[i].shortCode = c
    ELSE 0

\* the unique constraints an insert of data would violate
UniqueViolations(store, data) ==
    (IF FindByOriginalUrl(store, data.originalUrl) # 0
     THEN {"originalUrl"} ELSE {})
    \cup
    (IF FindByShortCode(store, data.shortCode) # 0
     THEN {"shortCode"} ELSE {})

\* variant: the title is left out of the inserted data, so the column keeps
\* the sentinel whatever was fetched
NewUrl_title_omitted(data) ==
    [originalUrl |-> data.originalUrl, shortCode |-> data.shortCode,
     title |-> TitleUnavailable, clickCount |-> 0]

\* the row db.url.create inserts; clickCount defaults to 0
NewUrl(data) ==
    [originalUrl |-> data.originalUrl, shortCode |-> data.shortCode,
     title |-> data.title, clickCount |-> 0]

\* variant: shortCode carries no unique constraint
url_create_code_not_unique(store, data) ==
    IF FindByOriginalUrl(store, data.originalUrl) = 0
    THEN [violated |-> {}, store |-> Append(store, NewUrl(data))]
    ELSE [violated |-> {"originalUrl"}, store |-> store]

\* variant: originalUrl carries no unique constraint
url_create_url_not_unique(store, data) ==
    IF FindByShortCode(store, data.shortCode) = 0
    THEN [violated |-> {}, store |-> Append(store, NewUrl(data))]
    ELSE [violated |-> {"shortCode"}, store |-> store]

\* variant: an upsert keyed by originalUrl, which re-keys the stored record
\* to the new shortCode instead of rejecting the insert
url_create_upsert(store, data) ==
    IF FindByShortCode(store, data.shortCode) # 0
    THEN [violated |-> {"shortCode"}, store |-> store]
    ELSE IF FindByOriginalUrl(store, data.originalUrl) = 0
    THEN [violated |-> {}, store |-> Append(store, NewUrl(data))]
    ELSE [violated |-> {},
          store |-> [store EXCEPT
                       ![FindByOriginalUrl(store, data.originalUrl)].shortCode =
                           data.shortCode]]

\* variant: REPLACE semantics, an insert whose shortCode is taken overwrites
\* the destination of the record that holds the code
url_create_replace(store, data) ==
    IF FindByOriginalUrl(store, data.originalUrl) # 0
    THEN [violated |-> {"originalUrl"}, store |-> store]
    ELSE IF FindByShortCode(store, data.shortCode) = 0
    THEN [violated |-> {}, store |-> Append(store, NewUrl(data))]
    ELSE [violated |-> {},
          store |-> [store EXCEPT
                       ![FindByShortCode(store, data.shortCode)].originalUrl =
                           data.originalUrl,
                       ![FindByShortCode(store, data.shortCode)].title =
                           data.title]]

\* db.url.create(data): the store afterwards and the constraints violated
\* (the insert is rejected when there is one)
url_create(store, data) ==
    IF UniqueViolations(store, data) = {}
    THEN [violated |-> {}, store |-> Append(store, NewUrl(data))]
    ELSE [violated |-> UniqueViolations(store, data), store |-> store]

\* variant: read-modify-write, the new count is computed from the record
\* the caller read at its lookup
increment_clicks_read_modify_write(store, id, url_record) ==
    [store EXCEPT ![id].clickCount = url_record.clickCount + 1]

\* variant: data={"clickCount": 1}, the count is set instead of incremented
increment_clicks_set(store, id, url_record) ==
    [store EXCEPT ![id].clickCount = 1]

\* db.url.update(where={"id": id}, data={"clickCount": {"increment": 1}}):
\* the increment is applied by the store to the stored value; the record
\* the caller read earlier (url_record) plays no part
increment_clicks(store, id, url_record) ==
    [store EXCEPT ![id].clickCount = store[id].clickCount + 1]

\* ------------------------------------------------------------------ state
VARIABLES
    urls,       \* table Url: sequence of records, the id is the position
    users,      \* table User: the emails stored (email is a unique key)
    userurls,   \* table UserUrl: per Url id, the number of rows that link
                \* it to the system user with no custom domain
    task,       \* per invocation slot: position and locals of the coroutine;
                \* fetch (how the title fetch ended), created (this
                \* invocation inserted a Url) and prior (at its call, a
                \* create_short_url had already returned this url / this
                \* code) are history
    calls,      \* number of invocations started so far
    returned,   \* history: [url, code] of every create_short_url that returned
    lookups     \* history: per Url id, the number of get_original_url
                \* invocations whose lookup found the record

vars == << urls, users, userurls, task, calls, returned, lookups >>

\* existing_url / url_record / new_url = None
NoRecord ==
    [id |-> 0, originalUrl |-> << >>, shortCode |-> << >>, title |-> << >>,
     clickCount |-> 0]

\* the record with the given id as a find or create returns it
Record(store, id) ==
    [id |-> id, originalUrl |-> store[id].originalUrl,
     shortCode |-> store[id].shortCode, title |-> store[id].title,
     clickCount |-> store[id].clickCount]

\* a slot with no invocation running
IdleTask ==
    [pc |-> "idle", op |-> "none", raw |-> << >>, url |-> << >>,
     code |-> None, attempt |-> 0, title |-> << >>, rec |-> NoRecord,
     fetch |-> "none", created |-> FALSE, prior |-> FALSE, err |-> "none"]

Init ==
    /\ urls = << >>
    /\ users = {}
    /\ userurls = << >>
    /\ task = [p \in Procs |-> IdleTask]
    /\ calls = 0
    /\ returned = {}
    /\ lookups = << >>

\* the invocation in slot p ends with an exception; its locals are gone
Fail(p, reason) ==
    task' = [task EXCEPT ![p] =
                [IdleTask EXCEPT !.pc = "failed", !.err = reason,
                                 !.op = task[p].op, !.raw = task[p].raw,
                                 !.fetch = task[p].fetch,
                                 !.created = task[p].created,
                                 !.prior = task[p].prior]]

\* prisma's UniqueViolationError, with the constraint the store reports
UniqueViolationError(constraint) ==
    CASE constraint = "email"       -> "UniqueViolation(email)"
      [] constraint = "originalUrl" -> "UniqueViolation(originalUrl)"
      [] constraint = "shortCode"   -> "UniqueViolation(shortCode)"

Conflicts ==
    { UniqueViolationError(c) : c \in {"email", "originalUrl", "shortCode"} }

\* slot p can take a new invocation: none ran in it yet, or the last one
\* has returned or raised
Free(p) == task[p].pc \in {"idle", "done", "failed"}

\* shorten_url / redirect_url: the HTTP status the caller of the API sees
HttpStatus(t) ==
    IF t.pc = "done"
    THEN IF t.op = "resolve" /\ t.url = None THEN 404
         ELSE IF t.op = "resolve" THEN 302 ELSE 200
    ELSE IF t.err \in {"InvalidURL", "SelfReferential", "CodeSpaceExhausted"}
         THEN 400
         ELSE 500

\* create_short_url returns the dict built from the record in task[p].rec
\* (existing_url or new_url): shortCode, originalUrl and title are kept in
\* the slot's code, url and title; the other locals are gone
Succeed(p) ==
    /\ task' = [task EXCEPT ![p] =
                   [IdleTask EXCEPT !.pc = "done",
                                    !.op = task[p].op, !.raw = task[p].raw,
                                    !.fetch = task[p].fetch,
                                    !.created = task[p].created,
                                    !.prior = task[p].prior,
                                    !.code = task[p].rec.shortCode,
                                    !.url = task[p].rec.originalUrl,
                                    !.title = task[p].rec.title]]
    /\ returned' = returned \cup {[url  |-> task[p].rec.originalUrl,
                                   code |-> task[p].rec.shortCode]}

\* ------------------------------------------------------- create_short_url
\* call of create_short_url(db, raw): validate_url, the recursion check and
\* db.user.find_unique(where={"email": ...}) of get_or_create_linebot_user
Shorten(p, raw) ==
    /\ Free(p)
    /\ calls < MaxCalls
    /\ calls' = calls + 1
    /\ LET v == validate_url(raw)
           t == [IdleTask EXCEPT !.op = "shorten", !.raw = raw,
                    !.prior = \E h \in returned : h.url = v.url]
       IN  IF ~v.ok
           THEN task' = [task EXCEPT ![p] =
                            [t EXCEPT !.pc = "failed", !.err = "InvalidURL"]]
           ELSE IF RecursiveCheckPropagates(v.url)
           THEN task' = [task EXCEPT ![p] =
                            [t EXCEPT !.pc = "failed", !.err = "SelfReferential"]]
           ELSE task' = [task EXCEPT ![p] =
                            [t EXCEPT !.url = v.url,
                                      !.pc = IF linebot_email \in users
                                             THEN "find_url"
                                             ELSE "create_user"]]
    /\ UNCHANGED << urls, users, userurls, returned, lookups >>

\* get_or_create_linebot_user: db.user.create; email is a unique key
CreateUser(p) ==
    /\ task[p].pc = "create_user"
    /\ IF linebot_email \in users
       THEN /\ Fail(p, UniqueViolationError("email"))
            /\ UNCHANGED users
       ELSE /\ users' = users \cup {linebot_email}
            /\ task' = [task EXCEPT ![p].pc = "find_url"]
    /\ UNCHANGED << urls, userurls, calls, returned, lookups >>

\* existing_url = db.url.find_unique(where={"originalUrl": validated_url})
FindUrl(p) ==
    /\ task[p].pc = "find_url"
    /\ LET id == FindByOriginalUrl(urls, task[p].url)
       IN  IF id # 0
           THEN task' = [task EXCEPT ![p].pc = "find_user_url",
                                     ![p].rec = Record(urls, id)]
           ELSE task' = [task EXCEPT ![p].pc = "generate",
                                     ![p].attempt = 0,
                                     ![p].code = None]
    /\ UNCHANGED << urls, users, userurls, calls, returned, lookups >>

\* existing branch: db.userurl.find_first(...); return when it exists
FindUserUrl(p) ==
    /\ task[p].pc = "find_user_url"
    /\ IF userurls[task[p].rec.id] > 0
       THEN Succeed(p)
       ELSE /\ task' = [task EXCEPT ![p].pc = "create_user_url"]
            /\ UNCHANGED returned
    /\ UNCHANGED << urls, users, userurls, calls, lookups >>

\* existing branch: db.userurl.create(...), then return existing_url's fields
CreateUserUrl(p) ==
    /\ task[p].pc = "create_user_url"
    /\ userurls' = [userurls EXCEPT ![task[p].rec.id] = @ + 1]
    /\ Succeed(p)
    /\ UNCHANGED << urls, users, calls, lookups >>

\* one iteration of `for attempt in range(max_attempts)`: draw a candidate
\* and look it up; the slot of an invocation that raised here keeps the
\* attempt it raised at
Generate(p) ==
    /\ task[p].pc = "generate"
    /\ \E potential_code \in generate_short_code(CodeLength) :
         IF FindByShortCode(urls, potential_code) = 0
         THEN task' = [task EXCEPT ![p].code = potential_code,
                                   ![p].pc = "fetch_title"]
         ELSE CASE AfterCollision(task[p].attempt) = "raise" ->
                     task' = [task EXCEPT ![p].pc = "failed",
                                          ![p].err = "CodeSpaceExhausted"]
                [] AfterCollision(task[p].attempt) = "continue" ->
                     task' = [task EXCEPT ![p].attempt = @ + 1]
                [] OTHER ->
                     task' = [task EXCEPT ![p].pc = "fetch_title"]
    /\ UNCHANGED << urls, users, userurls, calls, returned, lookups >>

\* title = await fetch_page_title(validated_url)
FetchTitle(p) ==
    /\ task[p].pc = "fetch_title"
    /\ \E r \in Web(task[p].url) :
         LET f == fetch_page_title(r)
         IN  IF f.raised
             THEN Fail(p, "FetchFailed")
             ELSE task' = [task EXCEPT ![p].title = f.title,
                                       ![p].fetch = IF FetchFails(r)
                                                    THEN "failed" ELSE "ok",
                                       ![p].pc = "create_url"]
    /\ UNCHANGED << urls, users, userurls, calls, returned, lookups >>

\* new_url = await db.url.create(data={originalUrl, shortCode, title}); a
\* violated unique constraint raises and nothing catches it
CreateUrl(p) ==
    /\ task[p].pc = "create_url"
    /\ LET res == url_create(urls, [originalUrl |-> task[p].url,
                                    shortCode   |-> task[p].code,
                                    title       |-> task[p].title])
       IN  IF res.violated # {}
           THEN /\ \E c \in res.violated : Fail(p, UniqueViolationError(c))
                /\ UNCHANGED << urls, userurls, lookups >>
           ELSE /\ urls' = res.store
                /\ userurls' = Append(userurls, 0)
                /\ lookups' = Append(lookups, 0)
                /\ task' = [task EXCEPT
                              ![p].pc = "link_user_url",
                              ![p].created = TRUE,
                              ![p].rec = Record(res.store, Len(res.store))]
    /\ UNCHANGED << users, calls, returned >>

\* new branch: db.userurl.create(...), then return new_url's fields
LinkUserUrl(p) ==
    /\ task[p].pc = "link_user_url"
    /\ userurls' = [userurls EXCEPT ![task[p].rec.id] = @ + 1]
    /\ Succeed(p)
    /\ UNCHANGED << urls, users, calls, lookups >>

\* ------------------------------------------------------- get_original_url
\* call of get_original_url(db, short_code): the lookup
Resolve(p, short_code) ==
    /\ Free(p)
    /\ calls < MaxCalls
    /\ calls' = calls + 1
    /\ LET id == FindByShortCode(urls, short_code)
           t  == [IdleTask EXCEPT !.op = "resolve", !.code = short_code,
                    !.prior = \E h \in returned : h.code = short_code]
       IN  IF id # 0
           THEN /\ task' = [task EXCEPT ![p] =
                              [t EXCEPT !.pc = "update_clicks",
                                        !.rec = Record(urls, id)]]
                /\ lookups' = [lookups EXCEPT ![id] = @ + 1]
           ELSE /\ task' = [task EXCEPT ![p] =
                              [t EXCEPT !.pc = "done", !.url = None]]
                /\ UNCHANGED lookups
    /\ UNCHANGED << urls, users, userurls, returned >>

\* db.url.update(... {"clickCount": {"increment": 1}}), then
\* return url_record.originalUrl
UpdateClicks(p) ==
    /\ task[p].pc = "update_clicks"
    /\ urls' = increment_clicks(urls, task[p].rec.id, task[p].rec)
    /\ task' = [task EXCEPT ![p].pc = "done",
                            ![p].url = task[p].rec.originalUrl,
                            ![p].rec = NoRecord]
    /\ UNCHANGED << users, userurls, calls, returned, lookups >>

Next ==
    \E p \in Procs :
        \/ \E raw \in RawInputs : Shorten(p, raw)
        \/ CreateUser(p)
        \/ FindUrl(p)
        \/ FindUserUrl(p)
        \/ CreateUserUrl(p)
        \/ Generate(p)
        \/ FetchTitle(p)
        \/ CreateUrl(p)
        \/ LinkUserUrl(p)
        \/ \E c \in generate_short_code(CodeLength) : Resolve(p, c)
        \/ UpdateClicks(p)

Spec == Init /\ [][Next]_vars

\* ---------------------------------------------------------------- webhook
\* os.getenv("CHANNEL_SECRET"): the secret shared with the LINE platform
CHANNEL_SECRET == "channel-secret"

\* a key that is not the channel secret
ForgedSecret == "forged-secret"

\* hmac.new(key, body, hashlib.sha256).digest(): the digest is the term
\* built from key and body; two digests are equal exactly when key and body
\* are
hmac_sha256(key, body) == << "hmac-sha256", key, body >>

\* base64.b64encode(d).decode('utf-8'): one text per digest
b64encode(d) == << "base64", d >>

\* variant: every signature that is present is accepted
verify_signature_any(body, signature) == signature # << >>

\* verify_signature(body, signature)
verify_signature(body, signature) ==
    IF signature = << >> THEN FALSE
    ELSE signature = b64encode(hmac_sha256(CHANNEL_SECRET, body))

\* webhook_handler.parser.parse(body, signature): the SDK validates the
\* signature with the handler's secret, then decodes the events
parse(body, signature) ==
    IF signature # b64encode(hmac_sha256(CHANNEL_SECRET, body))
    THEN [error |-> "InvalidSignatureError", events |-> << >>]
    ELSE IF \E i \in 1..Len(body) : body[i].type = "garbage"
    THEN [error |-> "Exception", events |-> << >>]
    ELSE [error |-> "none", events |-> body]

\* HttpUrl(message_text) and str() of it: http or https with a host and no
\* whitespace, or the ValidationError; an empty path is written as "/"
HttpUrl(text) ==
    IF /\ StartsWith(text, HttpPrefix) \/ StartsWith(text, HttpsPrefix)
       /\ Netloc(text) # << >>
       /\ \A i \in 1..Len(text) : text[i] \notin Whitespace
    THEN [ok |-> TRUE,
          url |-> IF Len(Scheme(text)) + 3 + Len(Netloc(text)) = Len(text)
                  THEN text \o << "/" >>
                  ELSE text]
    ELSE [ok |-> FALSE, url |-> << >>]

\* the request bodies explored: no bytes at all, or one part that is a text
\* message event, another event, or bytes that do not decode
EmptyBody == << >>
Bodies ==
    { EmptyBody,
      << [type |-> "message-text", text |-> RawHttps] >>,
      << [type |-> "message-text", text |-> RawOwn] >>,
      << [type |-> "message-text", text |-> << "h", "i" >>] >>,
      << [type |-> "follow", text |-> << >>] >>,
      << [type |-> "garbage", text |-> << >>] >> }

\* the X-Line-Signature headers explored: none, or the signature of some
\* body under the channel secret or under another key
Signatures ==
    { << >> } \cup
    { b64encode(hmac_sha256(k, b)) :
         k \in {CHANNEL_SECRET, ForgedSecret}, b \in Bodies }

Requests == [body : Bodies, signature : Signatures]

\* raise HTTPException(status_code=400, detail=detail)
Reject(p, detail) ==
    /\ task' = [task EXCEPT ![p] =
                   [IdleTask EXCEPT !.pc = "failed", !.op = "webhook",
                                    !.err = detail]]
    /\ UNCHANGED << urls, users, userurls, returned, lookups >>

\* the status webhook answers with: 400 for a rejected request, else the
\* JSONResponse {"status": "ok"} (process_message_sync's errors are caught)
WebhookStatus(t) ==
    IF t.op = "webhook" /\ t.pc = "failed" THEN 400 ELSE 200

\* POST /webhook with the given body and X-Line-Signature header.  The
\* explored bodies carry at most one event; a text message event whose text
\* passes HttpUrl runs create_short_url(db, str(validated_url)) in the slot
Webhook(p, body, signature) ==
    /\ Free(p)
    /\ calls < MaxCalls
    /\ IF body = EmptyBody
       THEN calls' = calls + 1 /\ Reject(p, "Empty request body")
       ELSE IF signature = << >>
       THEN calls' = calls + 1 /\ Reject(p, "Missing X-Line-Signature header")
       ELSE IF ~verify_signature(body, signature)
       THEN calls' = calls + 1 /\ Reject(p, "Signature verification failed")
       ELSE IF parse(body, signature).error = "InvalidSignatureError"
       THEN calls' = calls + 1 /\ Reject(p, "Invalid signature")
       ELSE IF parse(body, signature).error # "none"
       THEN calls' = calls + 1 /\ Reject(p, "Event parsing failed")
       ELSE LET events == parse(body, signature).events
            IN  IF /\ events # << >>
                   /\ events[1].type = "message-text"
                   /\ HttpUrl(events[1].text).ok
                THEN Shorten(p, HttpUrl(events[1].text).url)
                ELSE /\ calls' = calls + 1
                     /\ task' = [task EXCEPT ![p] =
                                    [IdleTask EXCEPT !.pc = "done",
                                                     !.op = "webhook"]]
                     /\ UNCHANGED << urls, users, userurls, returned, lookups >>

\* the service as the LINE platform drives it: every create_short_url is
\* started by the webhook
NextWebhook ==
    \E p \in Procs :
        \/ \E req \in Requests : Webhook(p, req.body, req.signature)
        \/ CreateUser(p)
        \/ FindUrl(p)
        \/ FindUserUrl(p)
        \/ CreateUserUrl(p)
        \/ Generate(p)
        \/ FetchTitle(p)
        \/ CreateUrl(p)
        \/ LinkUserUrl(p)

SpecWebhook == Init /\ [][NextWebhook]_vars

\* ================================================================ claims
Shortens == {p \in Procs : task[p].op = "shorten"}
Resolves == {p \in Procs : task[p].op = "resolve"}

\* the ids of the Url records whose originalUrl is u
RecordsOf(u) == {i \in 1..Len(urls) : urls[i].originalUrl = u}

\* C1: concurrent dedup.  Whatever the interleaving of create_short_url
\* invocations for one destination, no invocation loses the race on the
\* unique originalUrl with an error, and every invocation that has returned
\* returned the shortCode of the one record stored for its destination.
C1_ConcurrentDedup ==
    \A p \in Shortens :
        /\ task[p].err # UniqueViolationError("originalUrl")
        /\ task[p].pc = "done" =>
              /\ Cardinality(RecordsOf(task[p].url)) = 1
              /\ \A i \in RecordsOf(task[p].url) :
                    urls[i].shortCode = task[p].code

\* C2: uniqueness.  No two Url records share a shortCode or an originalUrl,
\* and over everything create_short_url has returned, two results have the
\* same code exactly when they have the same destination.
C2_Uniqueness ==
    /\ \A i, j \in 1..Len(urls) :
          i # j => /\ urls[i].shortCode # urls[j].shortCode
                   /\ urls[i].originalUrl # urls[j].originalUrl
    /\ \A g, h \in returned : (g.code = h.code) <=> (g.url = h.url)

\* C2 happens: two destinations are stored and both have been returned
C2_Witness ==
    /\ Len(urls) >= 2
    /\ \E g, h \in returned : g.url # h.url

\* C3: counter correctness.  For every record, clickCount plus the number
\* of get_original_url invocations that have found the record and not yet
\* done their update equals the number of invocations that found it: once
\* all N have finished the count is exactly N higher than at creation.
C3_CounterCorrectness ==
    \A i \in 1..Len(urls) :
        urls[i].clickCount
          + Cardinality({p \in Procs : /\ task[p].pc = "update_clicks"
                                       /\ task[p].rec.id = i})
          = lookups[i]

\* C3 happens: two resolutions of one code overlapped (one still holds the
\* record it read before the other's increment) and both were counted
C3_Witness ==
    \E p, q \in Resolves :
        /\ task[p].pc = "update_clicks"
        /\ task[q].pc = "done" /\ task[q].url # None
        /\ task[q].code = task[p].code
        /\ task[p].rec.clickCount < urls[task[p].rec.id].clickCount
        /\ lookups[task[p].rec.id] = 2

\* C4: idempotent creation.  A create_short_url that was called after an
\* earlier call for the same destination had returned, and that returns,
\* returns the code the earlier call returned and has inserted nothing:
\* the destination still has exactly one record.
C4_IdempotentCreation ==
    \A p \in Shortens :
        (task[p].pc = "done" /\ task[p].prior) =>
            /\ ~task[p].created
            /\ \A h \in returned : h.url = task[p].url => h.code = task[p].code
            /\ Cardinality(RecordsOf(task[p].url)) = 1

\* C4 happens: a second call for an already returned destination returned
C4_Witness ==
    \E p \in Shortens :
        /\ task[p].pc = "done" /\ task[p].prior
        /\ \E h \in returned : h.url = task[p].url /\ h.code = task[p].code

\* C5: round trip.  A get_original_url(c) that was called after a
\* create_short_url had returned code c for destination u returns u, never
\* None and never another destination.
C5_RoundTrip ==
    \A p \in Resolves :
        (task[p].pc = "done" /\ task[p].prior) =>
            \A h \in returned : h.code = task[p].code => task[p].url = h.url

\* C5 happens: a returned code was resolved to its destination
C5_Witness ==
    \E p \in Resolves :
        /\ task[p].pc = "done" /\ task[p].prior
        /\ \E h \in returned : h.code = task[p].code /\ h.url = task[p].url

\* C6: self-referential rejection.  A create_short_url whose URL has one of
\* the service's own hosts never returns a result (it ends with a failure),
\* and no Url record with such a host is ever stored.
C6_SelfReferentialRejected ==
    /\ \A p \in Shortens :
          task[p].pc = "done" => Hostname(task[p].url) \notin OwnHosts
    /\ \A i \in 1..Len(urls) : Hostname(urls[i].originalUrl) \notin OwnHosts

\* a well-formed URL has no whitespace inside and is not empty
WellFormed(raw) ==
    /\ Strip(raw) # << >>
    /\ \A i \in 1..Len(Strip(raw)) : Strip(raw)[i] \notin Whitespace

\* C7: invalid-input rejection.  A create_short_url whose input is not a
\* well-formed URL never returns a result (it ends with a failure), and no
\* Url record is ever created for such an input.
C7_InvalidInputRejected ==
    /\ \A p \in Shortens :
          task[p].pc = "done" => WellFormed(task[p].raw)
    /\ \A i \in 1..Len(urls) :
          \A raw \in RawInputs :
             ~WellFormed(raw) => urls[i].originalUrl # validate_url(raw).url

\* C8: conflict is never surfaced.  No create_short_url ends with the
\* unique-constraint violation of url.create, on originalUrl or on
\* shortCode, and so none is answered with HTTP 500 for it.
C8_ConflictNeverSurfaced ==
    \A p \in Shortens :
        task[p].pc = "failed" =>
            /\ task[p].err \notin {UniqueViolationError("originalUrl"),
                                   UniqueViolationError("shortCode")}
            /\ (task[p].err \in Conflicts \ {UniqueViolationError("email")}
                  => HttpStatus(task[p]) # 500)

\* C9: bounded code generation.  The collision loop never examines more
\* than max_attempts candidates; a candidate taken on to the fetch and the
\* insert is a generated code, never None; every stored code is a generated
\* code held by one record only; and CodeSpaceExhausted is raised on the
\* collision of the last attempt, by an invocation that inserted nothing.
C9_BoundedGeneration ==
    /\ \A p \in Shortens :
          /\ task[p].attempt <= max_attempts - 1
          /\ task[p].pc \in {"fetch_title", "create_url"}
                => task[p].code \in generate_short_code(CodeLength)
          /\ task[p].err = "CodeSpaceExhausted"
                => /\ task[p].attempt = max_attempts - 1
                   /\ ~task[p].created
    /\ \A i \in 1..Len(urls) :
          /\ urls[i].shortCode \in generate_short_code(CodeLength)
          /\ \A j \in 1..Len(urls) :
                urls[j].shortCode = urls[i].shortCode => j = i

\* C9 happens: every candidate of all max_attempts attempts was taken
C9_Witness ==
    \E p \in Shortens :
        /\ task[p].pc = "failed"
        /\ task[p].err = "CodeSpaceExhausted"
        /\ \A c \in generate_short_code(CodeLength) :
              FindByShortCode(urls, c) # 0

\* C10: the title fetch never blocks creation.  No create_short_url ends
\* with an error of the fetch; after a fetch that failed in any way the
\* title carried to the insert, stored and returned is the sentinel; and
\* an invocation whose fetch failed fails, if at all, only on the insert's
\* unique constraints.
C10_FetchNeverBlocks ==
    \A p \in Shortens :
        /\ task[p].err # "FetchFailed"
        /\ task[p].fetch = "failed" =>
              /\ task[p].pc \in {"create_url", "link_user_url", "done", "failed"}
              /\ task[p].pc = "create_url" => task[p].title = TitleUnavailable
              /\ task[p].pc = "link_user_url" =>
                    /\ task[p].created
                    /\ urls[task[p].rec.id].title = TitleUnavailable
              /\ task[p].pc = "done" =>
                    /\ task[p].created
                    /\ task[p].title = TitleUnavailable
                    /\ \A i \in RecordsOf(task[p].url) :
                          urls[i].title = TitleUnavailable
              /\ task[p].pc = "failed" =>
                    task[p].err \in {UniqueViolationError("originalUrl"),
                                     UniqueViolationError("shortCode")}

\* C10 happens: a new destination whose fetch failed was stored and returned
C10_Witness ==
    \E p \in Shortens :
        /\ task[p].pc = "done" /\ task[p].created
        /\ task[p].fetch = "failed"
        /\ task[p].title = TitleUnavailable

\* C11: resolve of an unknown code changes nothing.  A get_original_url
\* called with a code that no Url record has returns None at once, which
\* redirect_url answers with HTTP 404, and the step leaves the Url records
\* (every clickCount included), the users, the associations and the
\* histories as they were.
C11_ResolveUnknownChangesNothing ==
    [][\A p \in Procs : \A c \in generate_short_code(CodeLength) :
          (Resolve(p, c) /\ \A i \in 1..Len(urls) : urls[i].shortCode # c) =>
             /\ UNCHANGED << urls, users, userurls, returned, lookups >>
             /\ task'[p].pc = "done"
             /\ task'[p].url = None
             /\ HttpStatus(task'[p]) = 404]_vars

\* C11 happens: an unknown code was resolved to None on a store that holds
\* a record which has been visited
C11_Witness ==
    \E p \in Resolves :
        /\ task[p].pc = "done" /\ task[p].url = None
        /\ \A i \in 1..Len(urls) : urls[i].shortCode # task[p].code
        /\ \E i \in 1..Len(urls) : urls[i].clickCount = 1

\* C12: click_count discipline.  A record is created with clickCount 0; in
\* no step does a clickCount decrease; a clickCount changes only in the
\* update step of a get_original_url for that record's shortCode, and then
\* by exactly 1; every such update step raises the count of its record by
\* exactly 1; so no step of create_short_url changes a clickCount.
C12_ClickCountDiscipline ==
    [][/\ \A i \in 1..Len(urls') :
             i > Len(urls) => urls'[i].clickCount = 0
       /\ \A i \in 1..Len(urls) :
             /\ i <= Len(urls')
             /\ urls'[i].clickCount >= urls[i].clickCount
             /\ urls'[i].clickCount # urls[i].clickCount =>
                   /\ urls'[i].clickCount = urls[i].clickCount + 1
                   /\ \E p \in Resolves :
                         /\ task[p].pc = "update_clicks"
                         /\ task[p].code = urls[i].shortCode
                         /\ task'[p].pc = "done"
       /\ \A p \in Resolves :
             (task[p].pc = "update_clicks" /\ task'[p].pc = "done") =>
                \E i \in 1..Len(urls) :
                   /\ urls[i].shortCode = task[p].code
                   /\ urls'[i].clickCount = urls[i].clickCount + 1
       /\ \A p \in Shortens :
             task'[p] # task[p] =>
                \A i \in 1..Len(urls) :
                   urls'[i].clickCount = urls[i].clickCount]_vars

\* C12 happens: a destination whose record has been visited was shortened
\* again, and the count is still 1
C12_Witness ==
    \E p \in Shortens :
        /\ task[p].pc = "done" /\ ~task[p].created
        /\ \E i \in RecordsOf(task[p].url) : urls[i].clickCount = 1

C14_Lifecycle ==
    [][/\ Len(urls') >= Len(urls)
       /\ \A i \in 1..Len(urls) :
             /\ i <= Len(urls')
             /\ urls'[i].originalUrl = urls[i].originalUrl
             /\ urls'[i].shortCode = urls[i].shortCode
       /\ returned \subseteq returned'
       /\ \A h \in returned' :
             \E i \in 1..Len(urls') :
                /\ urls'[i].originalUrl = h.url
                /\ urls'[i].shortCode = h.code]_vars

\* C14 happens: two bindings were returned and a counter of one of their
\* records has moved since
C14_Witness ==
    /\ Cardinality(returned) = 2
    /\ \E h \in returned :
          \E i \in RecordsOf(h.url) :
             urls[i].shortCode = h.code /\ urls[i].clickCount = 1

\* C15: scheme defaulting.  The URL a create_short_url works on is its input
\* trimmed, with https:// put in front when the trimmed input starts with
\* neither http:// nor https://, and unchanged otherwise.  So " a.io\n" and
\* "https://a.io" both stand for https://a.io: each result for them is the
\* one record of https://a.io with its 6-character code, a call for one made
\* after the other returned inserts nothing and does not fail, and two
\* results for them carry the same code.
C15_SchemeDefaulting ==
    /\ \A p \in Shortens :
          /\ task[p].url # << >> =>
                task[p].url =
                   IF \/ StartsWith(Strip(task[p].raw), HttpPrefix)
                      \/ StartsWith(Strip(task[p].raw), HttpsPrefix)
                   THEN Strip(task[p].raw)
                   ELSE HttpsPrefix \o Strip(task[p].raw)
          /\ task[p].raw \in {RawPlain, RawHttps} =>
                /\ task[p].url \in {<< >>, RawHttps}
                /\ task[p].prior => task[p].pc # "failed" /\ ~task[p].created
                /\ task[p].pc = "done" =>
                      /\ task[p].url = RawHttps
                      /\ Len(task[p].code) = 6
                      /\ Cardinality(RecordsOf(RawHttps)) = 1
                      /\ \A i \in RecordsOf(RawHttps) :
                            urls[i].shortCode = task[p].code
    /\ \A p, q \in Shortens :
          (/\ task[p].pc = "done" /\ task[p].raw = RawPlain
           /\ task[q].pc = "done" /\ task[q].raw = RawHttps)
             => task[p].code = task[q].code

\* C15 happens: " a.io\n" created the Link and a later "https://a.io"
\* returned that Link
C15_Witness ==
    \E p, q \in Shortens :
        /\ task[p].pc = "done" /\ task[p].raw = RawPlain /\ task[p].created
        /\ task[q].pc = "done" /\ task[q].raw = RawHttps /\ task[q].prior
        /\ task[p].code = task[q].code

\* C16: distinct destinations do not make each other fail.  At most one
\* system user is ever stored, and a create_short_url for a valid URL that
\* runs beside an invocation for a different destination never fails on the
\* get-or-create of the shared system user.
C16_DistinctDestinationsIndependent ==
    /\ Cardinality(users) <= 1
    /\ \A p \in Shortens :
          (/\ task[p].pc = "failed"
           /\ validate_url(task[p].raw).ok
           /\ \E q \in Shortens \ {p} :
                 /\ validate_url(task[q].raw).ok
                 /\ validate_url(task[q].raw).url # validate_url(task[p].raw).url)
             => task[p].err # UniqueViolationError("email")

\* C18: ownership association is unique and complete.  No Url has more than
\* one UserUrl row linking it to the system user with no custom domain, and
\* the Url a create_short_url has returned has such a row.
C18_OwnershipUniqueComplete ==
    /\ \A i \in 1..Len(urls) : userurls[i] <= 1
    /\ \A p \in Shortens :
          task[p].pc = "done" =>
             \A i \in RecordsOf(task[p].url) : userurls[i] >= 1

\* C17: webhook signature gate.  A POST /webhook whose body is empty, whose
\* signature is missing or whose signature is not the base64 HMAC-SHA256 of
\* its body under the channel secret is answered 400 in that very step, at
\* the latest by verify_signature and before any event parsing; it starts
\* no create_short_url, moves no other invocation and leaves the store as it
\* was.  A request that starts a create_short_url carries the signature of
\* its own body under the channel secret.
C17_SignatureGate ==
    [][\A p \in Procs : \A req \in Requests :
          (calls' # calls /\ Webhook(p, req.body, req.signature)) =>
             /\ (\/ req.body = << >>
                 \/ req.signature = << >>
                 \/ req.signature #
                      << "base64", << "hmac-sha256", "channel-secret", req.body >> >>)
                  => /\ task'[p].op = "webhook"
                     /\ task'[p].pc = "failed"
                     /\ task'[p].err \in {"Empty request body",
                                          "Missing X-Line-Signature header",
                                          "Signature verification failed"}
                     /\ WebhookStatus(task'[p]) = 400
                     /\ \A q \in Procs \ {p} : task'[q] = task[q]
                     /\ UNCHANGED << urls, users, userurls, returned, lookups >>
             /\ task'[p].op = "shorten"
                  => /\ req.body # << >>
                     /\ req.signature =
                          << "base64", << "hmac-sha256", "channel-secret", req.body >> >>]_vars

\* C17 happens: a request signed with another key was turned away on a store
\* that holds a Url created through a properly signed request
C17_Witness ==
    /\ Len(urls) = 1
    /\ \E q \in Shortens : task[q].pc = "done" /\ task[q].created
    /\ \E p \in Procs :
          /\ task[p].op = "webhook"
          /\ task[p].pc = "failed"
          /\ task[p].err = "Signature verification failed"
====
